---- MODULE Spec2Model ----
(***************************************************************************)
(* django-modeltranslation: per-language shadow fields of a model field    *)
(* (modeltranslation/fields.py).                                           *)
(*                                                                         *)
(* Two state machines share this module.                                   *)
(*   Spec       one model instance whose original attribute is proxied by  *)
(*              a TranslationFieldDescriptor (kind "text") or a            *)
(*              TranslationFileDescriptor (kind "file"): attribute reads   *)
(*              and writes, language switches, pre_save and save.          *)
(*   FieldSpec  the construction of the shadow fields of one original      *)
(*              field by create_translation_field, and get_prep_value.     *)
(*                                                                         *)
(* Python values are records [t, s, nn]: t is the type ("None", "str",     *)
(* "int", "FieldFile"), s the text (the name, for a FieldFile) and nn says *)
(* that the value (the name, for a FieldFile) is None.  Uploaded File      *)
(* objects that are not yet committed to storage are outside the value     *)
(* domain: committing them is the host framework's work.                   *)
(***************************************************************************)
EXTENDS Integers, Sequences, FiniteSets, TLC

VARIABLES
    kind,            \* "text": TranslationFieldDescriptor, "file": TranslationFileDescriptor
    fallback_value,  \* the descriptor's fallback_value (None when not configured)
    language,        \* the active language, as get_language() reports it
    dict,            \* instance.__dict__: attribute name -> value
    saved,           \* the instance has a row (the next save is an update)
    last,            \* the last call on the instance: [op, lang, add, arg, ret]
    CUSTOM_FIELDS,   \* settings: class names accepted besides the built-in ones
    orig,            \* the original (translated) field of the model
    fields,          \* language -> the shadow field created for it, or NoField
    outcome          \* the last call on a field: [op, lang, raised, arg, ret, consulted]

vars == <<kind, fallback_value, language, dict, saved, last,
          CUSTOM_FIELDS, orig, fields, outcome>>

instanceVars == <<kind, fallback_value, language, dict, saved, last>>
fieldVars == <<CUSTOM_FIELDS, orig, fields, outcome>>

----------------------------------------------------------------------------
(* Bounds *)

NumLangs == 2

LangCodes == <<"en", "de", "fr", "es", "it">>

LANGUAGES == [i \in 1..NumLangs |-> LangCodes[i]]
Languages == {LANGUAGES[i] : i \in 1..NumLangs}
DEFAULT_LANGUAGE == LANGUAGES[1]

----------------------------------------------------------------------------
(* Python values *)

None == [t |-> "None", s |-> "", nn |-> TRUE]
Str(x) == [t |-> "str", s |-> x, nn |-> FALSE]
Number(x) == [t |-> "int", s |-> x, nn |-> FALSE]
\* FieldFile(instance, field, name): a file bound to the instance, named name
attr_class(name) == [t |-> "FieldFile", s |-> name.s, nn |-> name.nn]

Strings == {"a", "b"}
\* what application code assigns to an attribute
Assignable == {None, Str("")} \cup {Str(x) : x \in Strings}

\* bool(v): None and '' are falsy; a FieldFile is truthy when it has a name
Truthy(v) == v.s # ""

\* a == b in Python: a FieldFile compares by its name
NameOf(v) == IF v.t = "FieldFile" THEN (IF v.nn THEN None ELSE Str(v.s)) ELSE v
PyEq(a, b) == NameOf(a) = NameOf(b)

\* equal, or both "no value" ('' and None are both stored as NULL)
SameContent(a, b) == PyEq(a, b) \/ (~Truthy(a) /\ ~Truthy(b))

----------------------------------------------------------------------------
(* modeltranslation.utils *)

build_localized_fieldname(field_name, lang) == field_name \o "_" \o lang

build_localized_verbose_name(verbose_name, lang) ==
    verbose_name \o " [" \o lang \o "]"

get_language == language

----------------------------------------------------------------------------
(* The instance: descriptors of the original attribute *)

Name == "title"
Keys == {Name} \cup {build_localized_fieldname(Name, l) : l \in Languages}

\* Mutant of DescriptorSet: the write goes to the default language's shadow field
DescriptorSet_ToDefault(d, name, lang, value) ==
    LET loc_field_name == build_localized_fieldname(name, DEFAULT_LANGUAGE)
    IN  [[d EXCEPT ![loc_field_name] = value] EXCEPT ![name] = value]

\* TranslationFieldDescriptor.__set__ / TranslationFileDescriptor.__set__
DescriptorSet(d, name, lang, value) ==
    LET loc_field_name == build_localized_fieldname(name, lang)
    IN  [[d EXCEPT ![loc_field_name] = value] EXCEPT ![name] = value]

\* get_default_instance of both descriptors
get_default_instance(d, name) == d[name]

\* Every language of LANGUAGES has a shadow attribute on the instance, so
\* hasattr(instance, loc_field_name) holds in both __get__ methods.

\* Mutant of FieldDescriptorGet: the read looks at the default language's
\* shadow field instead of the active language's
FieldDescriptorGet_Default(d, name, lang, fallback) ==
    LET loc_field_name == build_localized_fieldname(name, DEFAULT_LANGUAGE)
    IN  IF Truthy(d[loc_field_name])
        THEN [ret |-> d[loc_field_name], dict |-> d]
        ELSE IF fallback = None
        THEN [ret |-> get_default_instance(d, name), dict |-> d]
        ELSE [ret |-> fallback, dict |-> d]

\* TranslationFieldDescriptor.__get__: [ret, dict]
FieldDescriptorGet(d, name, lang, fallback) ==
    LET loc_field_name == build_localized_fieldname(name, lang)
    IN  IF Truthy(d[loc_field_name])
        THEN [ret |-> d[loc_field_name], dict |-> d]
        ELSE IF fallback = None
        THEN [ret |-> get_default_instance(d, name), dict |-> d]
        ELSE [ret |-> fallback, dict |-> d]

\* TranslationFileDescriptor.__get__: [ret, dict]
FileDescriptorGet(d, name, lang, fallback) ==
    LET loc_field_name == build_localized_fieldname(name, lang)
        localized == Truthy(d[loc_field_name])
        file == IF localized THEN d[loc_field_name]
                ELSE IF fallback = None THEN get_default_instance(d, name)
                ELSE fallback
        field_name == IF localized THEN loc_field_name ELSE name
        d2 == IF file.t = "str" \/ file.t = "None"
              THEN [d EXCEPT ![field_name] = attr_class(file)]
              ELSE d
    IN  [ret |-> d2[field_name], dict |-> d2]

DescriptorGet(k, d, name, lang, fallback) ==
    IF k = "file" THEN FileDescriptorGet(d, name, lang, fallback)
    ELSE FieldDescriptorGet(d, name, lang, fallback)

\* Mutant of pre_save: the original value is mirrored on insert too
pre_save_AlsoOnAdd(d, name, lang, add) ==
    LET val == d[build_localized_fieldname(name, lang)]
    IN  IF DEFAULT_LANGUAGE = lang
        THEN [ret |-> val, dict |-> [d EXCEPT ![name] = val]]
        ELSE [ret |-> val, dict |-> d]

\* TranslationField.pre_save / TranslationFileField.pre_save of the shadow
\* field of language lang: [ret, dict]
pre_save(d, name, lang, add) ==
    LET val == d[build_localized_fieldname(name, lang)]
    IN  IF DEFAULT_LANGUAGE = lang /\ ~add
        THEN [ret |-> val, dict |-> [d EXCEPT ![name] = val]]
        ELSE [ret |-> val, dict |-> d]

\* pre_save of the shadow fields of LANGUAGES[i..], in field order
RECURSIVE pre_save_all(_, _, _, _)
pre_save_all(d, name, i, add) ==
    IF i > NumLangs THEN d
    ELSE pre_save_all(pre_save(d, name, LANGUAGES[i], add).dict, name, i + 1, add)

NoArg == [t |-> "-", s |-> "", nn |-> FALSE]
Call(op, lang, add, arg, ret) ==
    [op |-> op, lang |-> lang, add |-> add, arg |-> arg, ret |-> ret]

InstanceInit ==
    /\ kind \in {"text", "file"}
    /\ fallback_value \in {None, Str("a")}
    /\ language \in Languages
    /\ dict = [k \in Keys |-> IF k = Name THEN Str("") ELSE None]
    /\ saved = FALSE
    /\ last = Call("init", "", FALSE, NoArg, NoArg)

InstanceIdle ==
    /\ kind = "text"
    /\ fallback_value = None
    /\ language = DEFAULT_LANGUAGE
    /\ dict = [k \in Keys |-> IF k = Name THEN Str("") ELSE None]
    /\ saved = FALSE
    /\ last = Call("init", "", FALSE, NoArg, NoArg)

\* translation.activate(l)
Activate(l) ==
    /\ l # language
    /\ language' = l
    /\ last' = Call("activate", l, FALSE, NoArg, NoArg)
    /\ UNCHANGED <<kind, fallback_value, dict, saved, fieldVars>>

\* instance.title = value
SetOriginal(value) ==
    /\ dict' = DescriptorSet(dict, Name, get_language, value)
    /\ last' = Call("set", get_language, FALSE, value, NoArg)
    /\ UNCHANGED <<kind, fallback_value, language, saved, fieldVars>>

\* instance.title
GetOriginal ==
    LET r == DescriptorGet(kind, dict, Name, get_language, fallback_value)
    IN  /\ dict' = r.dict
        /\ last' = Call("get", get_language, FALSE, NoArg, r.ret)
        /\ UNCHANGED <<kind, fallback_value, language, saved, fieldVars>>

\* instance.title_<l> = value
SetShadow(l, value) ==
    /\ dict' = [dict EXCEPT ![build_localized_fieldname(Name, l)] = value]
    /\ last' = Call("set_shadow", l, FALSE, value, NoArg)
    /\ UNCHANGED <<kind, fallback_value, language, saved, fieldVars>>

\* title_<l>.pre_save(instance, add)
PreSave(l, add) ==
    LET r == pre_save(dict, Name, l, add)
    IN  /\ dict' = r.dict
        /\ last' = Call("pre_save", l, add, NoArg, r.ret)
        /\ UNCHANGED <<kind, fallback_value, language, saved, fieldVars>>

\* instance.save(): the original field's pre_save reads the attribute, then
\* every shadow field's pre_save runs; an insert the first time, then updates
Save ==
    LET add == ~saved
        r == DescriptorGet(kind, dict, Name, get_language, fallback_value)
    IN  /\ dict' = pre_save_all(r.dict, Name, 1, add)
        /\ saved' = TRUE
        /\ last' = Call("save", "", add, NoArg, NoArg)
        /\ UNCHANGED <<kind, fallback_value, language, fieldVars>>

Next ==
    \/ \E l \in Languages : Activate(l)
    \/ \E v \in Assignable : SetOriginal(v)
    \/ GetOriginal
    \/ \E l \in Languages, v \in Assignable : SetShadow(l, v)
    \/ \E l \in Languages, add \in BOOLEAN : PreSave(l, add)
    \/ Save

----------------------------------------------------------------------------
(* The fields: create_translation_field and the shadow field classes *)

NoField == [cls |-> "NoField"]

Classes == {"CharField", "SlugField", "TextField", "FileField", "ImageField",
            "IntegerField", "MyField", "MyOtherField"}

\* the classes a field of class cls is an instance of
Mro(cls) ==
    {cls, "Field"} \cup
    (IF cls = "SlugField" THEN {"CharField"} ELSE {}) \cup
    (IF cls = "ImageField" THEN {"FileField"} ELSE {})

isinstance(field, classes) == Mro(field.cls) \cap classes # {}

\* a field as the model declares it
DeclaredField(cls, null, blank) ==
    [cls |-> cls, name |-> Name, attname |-> Name, null |-> null, blank |-> blank,
     verbose_name |-> Name,
     upload_to |-> IF "FileField" \in Mro(cls) THEN "uploads" ELSE "",
     storage |-> IF "FileField" \in Mro(cls) THEN "custom_storage" ELSE "",
     translated_field |-> NoField, language |-> ""]

\* Mutant of _post_init: null and blank stay as copied from the original field
_post_init_KeepsNull(self, translated_field, lang) ==
    LET attname == build_localized_fieldname(translated_field.name, lang)
    IN  [self |-> [self EXCEPT
                     !.translated_field = translated_field,
                     !.language = lang,
                     !.attname = attname,
                     !.name = attname,
                     !.verbose_name =
                         build_localized_verbose_name(translated_field.verbose_name,
                                                      lang)],
         translated_field |-> translated_field]

\* TranslationField._post_init / TranslationFileField._post_init:
\* [self, translated_field], the two objects after the call
_post_init(self, translated_field, lang) ==
    LET attname == build_localized_fieldname(translated_field.name, lang)
    IN  [self |-> [self EXCEPT
                     !.translated_field = translated_field,
                     !.language = lang,
                     !.null = TRUE,
                     !.blank = TRUE,
                     !.attname = attname,
                     !.name = attname,
                     !.verbose_name =
                         build_localized_verbose_name(translated_field.verbose_name,
                                                      lang)],
         translated_field |-> translated_field]

\* TranslationField.__init__
TranslationField(translated_field, lang) ==
    _post_init([translated_field EXCEPT !.cls = "TranslationField"],
               translated_field, lang)

\* TranslationFileField.__init__ (cls: TranslationFileField or its subclass
\* TranslationImageField), called without keyword arguments
TranslationFileField(cls, translated_field, lang) ==
    _post_init([translated_field EXCEPT
                  !.cls = cls,
                  !.storage = "default_storage",
                  !.upload_to = translated_field.upload_to],
               translated_field, lang)

\* Mutant of create_translation_field: file and image fields are rejected
create_translation_field_TextOnly(field, lang, custom) ==
    IF ~(\/ isinstance(field, {"CharField", "TextField"})
         \/ field.cls \in custom)
    THEN [raised |-> TRUE, self |-> NoField, translated_field |-> field]
    ELSE LET r == TranslationField(field, lang)
         IN  [raised |-> FALSE, self |-> r.self,
              translated_field |-> r.translated_field]

\* create_translation_field: [raised, self, translated_field]
create_translation_field(field, lang, custom) ==
    IF ~(\/ isinstance(field, {"CharField", "TextField", "FileField", "ImageField"})
         \/ field.cls \in custom)
    THEN [raised |-> TRUE, self |-> NoField, translated_field |-> field]
    ELSE LET r == IF isinstance(field, {"ImageField"})
                  THEN TranslationFileField("TranslationImageField", field, lang)
                  ELSE IF isinstance(field, {"FileField"})
                  THEN TranslationFileField("TranslationFileField", field, lang)
                  ELSE TranslationField(field, lang)
         IN  [raised |-> FALSE, self |-> r.self,
              translated_field |-> r.translated_field]

\* unicode(value)
unicode(value) == Str(value.s)

\* translated_field.get_prep_value(value), by the class of the original field
translated_get_prep_value(field, value) ==
    IF isinstance(field, {"FileField"})
    THEN IF value = None THEN None ELSE unicode(value)
    ELSE IF isinstance(field, {"CharField", "TextField"})
    THEN IF value.t = "str" \/ value = None THEN value ELSE unicode(value)
    ELSE value

\* Mutant of get_prep_value: '' is handed to the original field as it is
get_prep_value_KeepsEmpty(self, value) ==
    IF self.cls = "TranslationField"
    THEN [ret |-> translated_get_prep_value(self.translated_field, value),
          consulted |-> <<value>>]
    ELSE IF value = None
    THEN [ret |-> None, consulted |-> <<>>]
    ELSE [ret |-> translated_get_prep_value(self.translated_field, value),
          consulted |-> <<value>>]

\* TranslationField.get_prep_value / TranslationFileField.get_prep_value:
\* [ret, consulted], consulted the arguments handed to the original field
get_prep_value(self, value) ==
    IF self.cls = "TranslationField"
    THEN LET v == IF PyEq(value, Str("")) THEN None ELSE value
         IN  [ret |-> translated_get_prep_value(self.translated_field, v),
              consulted |-> <<v>>]
    ELSE IF PyEq(value, Str("")) \/ value = None
    THEN [ret |-> None, consulted |-> <<>>]
    ELSE [ret |-> translated_get_prep_value(self.translated_field, value),
          consulted |-> <<value>>]

\* the values a shadow field is asked to prepare: text and numbers, and
\* for a file field the FieldFile its attribute holds
PrepInputs(self) ==
    Assignable \cup {Number("5")} \cup
    (IF self.cls = "TranslationField" THEN {}
     ELSE {attr_class(v) : v \in {None, Str(""), Str("a")}})

FieldCall(op, lang, raised, arg, ret, consulted) ==
    [op |-> op, lang |-> lang, raised |-> raised, arg |-> arg, ret |-> ret,
     consulted |-> consulted]

FieldIdle ==
    /\ CUSTOM_FIELDS = {}
    /\ orig = NoField
    /\ fields = [l \in Languages |-> NoField]
    /\ outcome = FieldCall("init", "", FALSE, NoArg, NoArg, <<>>)

ModelInit ==
    /\ CUSTOM_FIELDS \in {{}, {"MyField"}, {"MyField", "MyOtherField"}}
    /\ orig \in {DeclaredField(c, n, b) : c \in Classes, n \in BOOLEAN, b \in BOOLEAN}
    /\ fields = [l \in Languages |-> NoField]
    /\ outcome = FieldCall("init", "", FALSE, NoArg, NoArg, <<>>)

\* create_translation_field(model, "title", l), the field added to the model
CreateTranslationField(l) ==
    LET r == create_translation_field(orig, l, CUSTOM_FIELDS)
    IN  /\ orig' = r.translated_field
        /\ fields' = IF r.raised THEN fields ELSE [fields EXCEPT ![l] = r.self]
        /\ outcome' = FieldCall("create", l, r.raised, NoArg, r.self, <<>>)
        /\ UNCHANGED <<CUSTOM_FIELDS, instanceVars>>

\* title_<l>.get_prep_value(value)
GetPrepValue(l, value) ==
    /\ fields[l] # NoField
    /\ LET r == get_prep_value(fields[l], value)
       IN  outcome' = FieldCall("get_prep_value", l, FALSE, value, r.ret, r.consulted)
    /\ UNCHANGED <<CUSTOM_FIELDS, orig, fields, instanceVars>>

FieldNext ==
    \/ \E l \in Languages : CreateTranslationField(l)
    \/ \E l \in Languages : \E v \in PrepInputs(fields[l]) : GetPrepValue(l, v)

Init == InstanceInit /\ FieldIdle

Spec == Init /\ [][Next]_vars

FieldInit == ModelInit /\ InstanceIdle

FieldSpec == FieldInit /\ [][FieldNext]_vars

----------------------------------------------------------------------------
(* Properties of the instance (Spec) *)

Loc(l) == build_localized_fieldname(Name, l)

\* C1: a read of the original attribute returns the value of the active
\* language's shadow field whenever that value is truthy, whatever the raw
\* original value and the other languages' shadow fields hold.
C1_ReadRouting ==
    [][(last'.op = "get" /\ Truthy(dict[Loc(language)]))
         => /\ PyEq(last'.ret, dict[Loc(language)])
            /\ last'.ret = dict'[Loc(language)]]_vars

C1_Witness ==
    /\ last.op = "get"
    /\ Truthy(dict[Loc(language)])
    /\ last.ret = dict[Loc(language)]
    /\ Truthy(dict[Name]) /\ ~PyEq(dict[Name], last.ret)
    /\ \E m \in Languages \ {language} :
          Truthy(dict[Loc(m)]) /\ ~PyEq(dict[Loc(m)], last.ret)

\* C2 (as claimed): when the active language's shadow field is empty and no
\* fallback_value is configured, a read of the original attribute returns the
\* value of the default language's shadow field (None and '' both counting
\* as "no value").
C2_FallbackIsDefaultShadow ==
    (last.op = "get" /\ ~Truthy(dict[Loc(language)]) /\ fallback_value = None)
      => SameContent(last.ret, dict[Loc(DEFAULT_LANGUAGE)])

\* C3: assigning v to the original attribute under language L sets the shadow
\* field of L and the raw original value to v and leaves every other
\* language's shadow field unchanged.
C3_WriteRouting ==
    [][last'.op = "set"
         => /\ dict'[Loc(language)] = last'.arg
            /\ dict'[Name] = last'.arg
            /\ \A m \in Languages \ {language} : dict'[Loc(m)] = dict[Loc(m)]]_vars

C3_Witness ==
    /\ last.op = "set"
    /\ Truthy(last.arg)
    /\ dict[Loc(language)] = last.arg
    /\ dict[Name] = last.arg
    /\ \E m \in Languages \ {language} :
          Truthy(dict[Loc(m)]) /\ ~PyEq(dict[Loc(m)], last.arg)

\* C4 (as claimed): once a value v has been written to the default
\* language's shadow field, after a save, insert or update, the raw original
\* value equals v.
C4_SaveMirrorsDefault ==
    (last.op = "save" /\ Truthy(dict[Loc(DEFAULT_LANGUAGE)]))
      => PyEq(dict[Name], dict[Loc(DEFAULT_LANGUAGE)])

----------------------------------------------------------------------------
(* Properties of the fields (FieldSpec) *)

TextLike(field) == isinstance(field, {"CharField", "TextField"})
FileLike(field) == isinstance(field, {"FileField", "ImageField"})
TranslationClasses ==
    {"TranslationField", "TranslationFileField", "TranslationImageField"}

ShadowFieldShape ==
    /\ \A l \in Languages :
          fields[l] # NoField
            => /\ fields[l].cls \in TranslationClasses
               /\ fields[l].null /\ fields[l].blank
               /\ fields[l].name = orig.name \o "_" \o l
               /\ fields[l].attname = fields[l].name
               /\ fields[l].translated_field = orig
               /\ fields[l].language = l
    /\ \A l, m \in Languages :
          (l # m /\ fields[l] # NoField /\ fields[m] # NoField)
            => fields[l].name # fields[m].name

\* C6: every shadow field created for (f, L) has null and blank set, is named
\* (name and attname) by the localized field name of f.name and L, refers to
\* f as translated_field with language L; constructing it leaves f as it was,
\* and the shadow fields of distinct languages have distinct names.
C6_ShadowFields ==
    [][ShadowFieldShape' /\ orig' = orig]_vars

C6_Witness ==
    /\ ~orig.null /\ ~orig.blank
    /\ \A l \in Languages : fields[l] # NoField /\ fields[l].null /\ fields[l].blank
    /\ \E l \in Languages : fields[l].cls = "TranslationField"

\* C8: TranslationField.get_prep_value hands the original field None for ''
\* and the value itself otherwise, and returns what the original field
\* returns, so '' and None give the same database value;
\* TranslationFileField.get_prep_value returns None for '' and for None
\* without consulting the original field, and for any other value returns
\* what the original field returns for that value.
C8_PrepValue ==
    /\ outcome.op = "get_prep_value"
         => LET f == fields[outcome.lang]
                v == outcome.arg
            IN  IF f.cls = "TranslationField"
                THEN LET w == IF v = Str("") THEN None ELSE v
                     IN  /\ outcome.consulted = <<w>>
                         /\ outcome.ret = translated_get_prep_value(orig, w)
                ELSE /\ v \in {None, Str("")}
                          => outcome.ret = None /\ outcome.consulted = <<>>
                     /\ ~PyEq(v, Str("")) /\ v # None
                          => /\ outcome.consulted = <<v>>
                             /\ outcome.ret = translated_get_prep_value(orig, v)
    /\ \A l \in Languages :
          fields[l] # NoField /\ fields[l].cls = "TranslationField"
            => get_prep_value(fields[l], Str("")).ret
                 = get_prep_value(fields[l], None).ret

C8_Witness ==
    /\ outcome.op = "get_prep_value"
    /\ outcome.arg = Str("")
    /\ fields[outcome.lang].cls = "TranslationField"
    /\ orig.cls = "CharField"
    /\ outcome.ret = None

====
